---- MODULE Spec2Model ----
(***************************************************************************)
(* The view composition and fallback lifecycle of the bionet client:       *)
(* App (shell, session refresh), Navigation, Router (Switch of exact       *)
(* Routes with a catch-all), Page (RouteBoundary around Suspense around a  *)
(* lazily loaded page component) and RouteBoundary.                        *)
(*                                                                         *)
(* React keeps a component instance while an element of the same type is   *)
(* rendered at the same position, runs componentDidCatch and the re-render *)
(* it schedules synchronously, and unmounts the whole root when an error   *)
(* reaches no boundary.  Promise continuations run from a FIFO microtask   *)
(* queue that is drained before the next event (a click, a navigation, the *)
(* completion of a network call or of an import) is dispatched.            *)
(***************************************************************************)
EXTENDS Naturals, Sequences, FiniteSets

\* ------------------------------------------------------------------ bounds

\* Navigation events dispatched after the first render.
MaxNav == 3

\* getCurrentUser() calls issued (the one of componentDidMount included).
MaxRefresh == 3

\* logout() calls made (clicks on the Logout button).
MaxLogout == 3

\* Clicks on the links of VisualPanelNavbar.
MaxClick == 2

\* ------------------------------------------------------------ value domains

\* Location pathnames the history can carry.
Paths == {"/", "/about", "/about/", "/login", "/signup", "/profile",
          "/missing", "/about/team"}

\* A pathname split at "/" with the empty pieces dropped (path-to-regexp
\* without `strict` ignores one trailing slash).
Segments(p) ==
  CASE p = "/"           -> <<>>
    [] p = "/about"      -> <<"about">>
    [] p = "/about/"     -> <<"about">>
    [] p = "/login"      -> <<"login">>
    [] p = "/signup"     -> <<"signup">>
    [] p = "/profile"    -> <<"profile">>
    [] p = "/missing"    -> <<"missing">>
    [] p = "/about/team" -> <<"about", "team">>

\* The lazily imported page components.
PageComponents == {"Landing", "About", "Login", "Signup", "Profile"}

\* Values a render can throw and componentDidCatch can receive.
NullValue == [type |-> "null", msg |-> ""]
NoThrow == [type |-> "none", msg |-> ""]
XFailed == [type |-> "Error", msg |-> "X failed"]
ThrownString == [type |-> "string", msg |-> "boom"]
Thrown == {XFailed, ThrownString, NullValue}

\* What Api.getCurrentUser() resolves to: the empty record or a user record.
EmptyRecord == <<>>
UserRecord == [username |-> "alice"]
UserRecords == {EmptyRecord, UserRecord}

\* What a failed import() rejects with.
ChunkLoadError == [type |-> "Error", msg |-> "Loading chunk failed"]
LoadErrors == {ChunkLoadError}

\* value.toString(): defined for every value but null.
HasToString(e) == e.type # "null"
\* Variant: the message alone, as error.message would give.
toStringMessage(e) == e.msg
toString(e) == IF e.type = "Error" THEN "Error: " \o e.msg ELSE e.msg

\* ------------------------------------------------------------------ state

VARIABLES
  shell,      \* "constructed" | "mounted" | "crashed" (root unmounted by React)
  path,       \* location.pathname of the history
  navs,       \* navigation events dispatched so far
  route,      \* index of the Route the Switch rendered last (0: none yet)
  boundary,   \* the RouteBoundary instance of the mounted Page
  created,    \* RouteBoundary instances constructed so far
  lazy,       \* status of each React.lazy component
  lazyError,  \* rejection reason of each rejected lazy component
  view,       \* what is rendered: nav, footer and the Router's main area
  heap,       \* the state objects of App, in order of creation
  this,       \* index in heap of App's this.state
  calls,      \* the getCurrentUser() calls of refreshCurrentUser, in order of issue
  logouts,    \* logoutCurrentUser() calls not settled yet
  micro,      \* the microtask queue: promise continuations ready to run
  lastSet,    \* the call whose result refresh() handed to setState last (0: none)
  log,        \* what the application's code wrote to the browser console
  unhandled,  \* a promise was rejected with no handler attached
  clicked,    \* logout() calls made so far
  db,         \* api server: "connecting" | "connected" | "failed"
  serverLog,  \* api server: what was written to its console
  server,     \* api server process: "running" | "exited"
  navbarProps, \* VisualPanelNavbar: the action and view props of the last render
  linkClicks, \* VisualPanelNavbar: the click events dispatched to onLinkClick
  setViewCalls, \* VisualPanelNavbar: the arguments props.setView was called with
  panelLog    \* VisualPanelNavbar: what onLinkClick wrote to the console

routerVars == <<path, navs, route, boundary, created, lazy, lazyError>>
appVars == <<heap, this, calls, logouts, micro, lastSet, log, unhandled, clicked>>
serverVars == <<db, serverLog, server>>
panelVars == <<navbarProps, linkClicks, setViewCalls, panelLog>>
vars == <<shell, routerVars, view, appVars, serverVars, panelVars>>

\* ----------------------------------------------------------------- Router

\* Router.render: the children of Switch, in order.
Routes == <<
  [hasPath |-> TRUE,  path |-> "/about",   exact |-> TRUE,  page |-> "About"],
  [hasPath |-> TRUE,  path |-> "/login",   exact |-> TRUE,  page |-> "Login"],
  [hasPath |-> TRUE,  path |-> "/signup",  exact |-> TRUE,  page |-> "Signup"],
  [hasPath |-> TRUE,  path |-> "/profile", exact |-> TRUE,  page |-> "Profile"],
  [hasPath |-> TRUE,  path |-> "/",        exact |-> TRUE,  page |-> "Landing"],
  [hasPath |-> FALSE, path |-> "",         exact |-> FALSE, page |-> "NotFound"] >>

IsPrefix(s, t) == Len(s) <= Len(t) /\ SubSeq(t, 1, Len(s)) = s

\* Variant: a Route without a path matches no location.
MatchPathNeedsPath(r, p) ==
  /\ r.hasPath
  /\ IF r.exact THEN Segments(p) = Segments(r.path)
     ELSE IsPrefix(Segments(r.path), Segments(p))

\* Route matching: a Route without a path matches every location, an exact
\* one the whole pathname, any other a prefix of its segments.
MatchPath(r, p) ==
  IF ~r.hasPath THEN TRUE
  ELSE IF r.exact THEN Segments(p) = Segments(r.path)
  ELSE IsPrefix(Segments(r.path), Segments(p))

\* Variant: the last child that matches is rendered.
SwitchLast(p) ==
  LET m == {i \in 1..Len(Routes) : MatchPath(Routes[i], p)}
  IN IF m = {} THEN 0 ELSE CHOOSE i \in m : \A j \in m : j <= i
\* Switch: the first child that matches is the only one rendered; 0 when no
\* child matches (Switch then renders null).
Switch(p) ==
  LET m == {i \in 1..Len(Routes) : MatchPath(Routes[i], p)}
  IN IF m = {} THEN 0 ELSE CHOOSE i \in m : \A j \in m : i <= j

\* ------------------------------------------------------- rendered elements

NoProps == [location |-> "", PageComponent |-> ""]

RouteMessageCard(title, subtitle, message) ==
  [kind |-> "RouteMessageCard", title |-> title, subtitle |-> subtitle,
   text |-> message, props |-> NoProps]

LoadingCard ==
  RouteMessageCard("Page Loading", "", "Please be patient while the content loads...")

NotFoundCard ==
  RouteMessageCard("404 - Not Found", "Page Not Found",
    "The content you have requested could not be found.  Please check the link and try again.")

ErrorCard(text) ==
  [kind |-> "ErrorCard", title |-> "Error", subtitle |-> "Oops, something went wrong :(",
   text |-> text, props |-> NoProps]

\* <PageComponent {...this.props} />: the resolved component with Page's props.
PageContent(c, props) ==
  [kind |-> "PageContent", title |-> c, subtitle |-> "", text |-> "", props |-> props]

\* The props Route's render hands to Page, with PageComponent added.
PageProps(r, p) == [location |-> p, PageComponent |-> Routes[r].page]

\* ------------------------------------------------------------ RouteBoundary

\* No Page is mounted: there is no RouteBoundary instance.
NoBoundary == [exists |-> FALSE, inst |-> 0, hasError |-> FALSE, error |-> NullValue]

\* RouteBoundary's constructor.
NewBoundary(n) == [exists |-> TRUE, inst |-> n, hasError |-> FALSE, error |-> NullValue]

componentDidCatch(b, error) == [b EXCEPT !.hasError = TRUE, !.error = error]

\* RouteBoundary.render throws a TypeError when this.state.error has no toString.
BoundaryRenderThrows(b) == b.hasError /\ ~HasToString(b.error)

\* The place of this.props.children in what RouteBoundary renders.
ChildrenSlot ==
  [kind |-> "children", title |-> "", subtitle |-> "", text |-> "", props |-> NoProps]

\* Variant: the error card is rendered beside the children.
RouteBoundaryRenderBoth(b) ==
  IF b.hasError THEN {ErrorCard(toString(b.error)), ChildrenSlot} ELSE {ChildrenSlot}
\* RouteBoundary.render: the error card once an error is held, the children
\* otherwise.
RouteBoundaryRender(b) ==
  IF b.hasError THEN {ErrorCard(toString(b.error))} ELSE {ChildrenSlot}

\* ------------------------------------------------------------------- Page

\* Variant: a rejected import is absorbed and the fallback stays.
SuspenseAbsorbsRejection(L, LE, props, t) ==
  LET c == props.PageComponent IN
  CASE L[c] = "uninit"   -> [lazy |-> [L EXCEPT ![c] = "pending"], out |-> {LoadingCard},
                             thrown |-> NoThrow]
    [] L[c] = "pending"  -> [lazy |-> L, out |-> {LoadingCard}, thrown |-> NoThrow]
    [] L[c] = "resolved" -> IF t = NoThrow
                            THEN [lazy |-> L, out |-> {PageContent(c, props)}, thrown |-> NoThrow]
                            ELSE [lazy |-> L, out |-> {}, thrown |-> t]
    [] L[c] = "rejected" -> [lazy |-> L, out |-> {LoadingCard}, thrown |-> NoThrow]

\* Variant: while the import is outstanding, a component that has resolved
\* already is rendered in its place.
SuspenseShowsResolved(L, LE, props, t) ==
  LET c == props.PageComponent
      done == {d \in PageComponents : L[d] = "resolved"}
      shown == IF done = {} THEN {LoadingCard}
               ELSE {PageContent(CHOOSE d \in done : TRUE, props)}
  IN
  CASE L[c] = "uninit"   -> [lazy |-> [L EXCEPT ![c] = "pending"], out |-> shown,
                             thrown |-> NoThrow]
    [] L[c] = "pending"  -> [lazy |-> L, out |-> shown, thrown |-> NoThrow]
    [] L[c] = "resolved" -> IF t = NoThrow
                            THEN [lazy |-> L, out |-> {PageContent(c, props)}, thrown |-> NoThrow]
                            ELSE [lazy |-> L, out |-> {}, thrown |-> t]
    [] L[c] = "rejected" -> [lazy |-> L, out |-> {}, thrown |-> LE[c]]

\* Suspense around the lazy component: the fallback while the import is
\* outstanding (the first render starts it), the component once it resolved;
\* a rejected import and a throwing component are not handled here and leave
\* as `thrown`.  t is what the component's render throws, NoThrow if nothing.
Suspense(L, LE, props, t) ==
  LET c == props.PageComponent IN
  CASE L[c] = "uninit"   -> [lazy |-> [L EXCEPT ![c] = "pending"], out |-> {LoadingCard},
                             thrown |-> NoThrow]
    [] L[c] = "pending"  -> [lazy |-> L, out |-> {LoadingCard}, thrown |-> NoThrow]
    [] L[c] = "resolved" -> IF t = NoThrow
                            THEN [lazy |-> L, out |-> {PageContent(c, props)}, thrown |-> NoThrow]
                            ELSE [lazy |-> L, out |-> {}, thrown |-> t]
    [] L[c] = "rejected" -> [lazy |-> L, out |-> {}, thrown |-> LE[c]]

\* Page.render under the RouteBoundary instance b: the boundary renders, its
\* children are rendered where it placed them, what they throw is captured by
\* componentDidCatch, and the boundary renders again.
PageRender(b, L, LE, props, t) ==
  LET first  == RouteBoundaryRender(b)
      s      == IF ChildrenSlot \in first THEN Suspense(L, LE, props, t)
                ELSE [lazy |-> L, out |-> {}, thrown |-> NoThrow]
      b1     == IF s.thrown = NoThrow THEN b ELSE componentDidCatch(b, s.thrown)
      second == IF s.thrown = NoThrow THEN first ELSE RouteBoundaryRender(b1)
  IN [boundary |-> b1, lazy |-> s.lazy, crashed |-> BoundaryRenderThrows(b1),
      main |-> IF BoundaryRenderThrows(b1) THEN {}
               ELSE (second \ {ChildrenSlot})
                    \cup (IF ChildrenSlot \in second THEN s.out ELSE {})]

\* Variant: the catch-all is a Page whose RouteBoundary captures the miss.
RouterRenderMissCaptured(b, n, L, LE, p, t) ==
  LET r == Switch(p) IN
  IF r = 0 THEN
    [route |-> 0, boundary |-> NoBoundary, created |-> n, lazy |-> L,
     crashed |-> FALSE, main |-> {}]
  ELSE
    LET b0 == IF b.exists THEN b ELSE NewBoundary(n + 1)
        pg == PageRender(b0, L, LE, PageProps(r, p), t)
    IN IF Routes[r].page = "NotFound"
       THEN [route |-> r, boundary |-> componentDidCatch(b0, XFailed),
             created |-> b0.inst, lazy |-> L, crashed |-> FALSE,
             main |-> {ErrorCard(toString(XFailed))}]
       ELSE [route |-> r, boundary |-> pg.boundary, created |-> b0.inst,
             lazy |-> pg.lazy, crashed |-> pg.crashed, main |-> pg.main]
\* Router.render at pathname p.  The Route elements of the Switch share type
\* and position, so a mounted Page (and its RouteBoundary) is kept from one
\* page route to the next and unmounted only by the catch-all's card.
RouterRender(b, n, L, LE, p, t) ==
  LET r == Switch(p) IN
  IF r = 0 THEN
    [route |-> 0, boundary |-> NoBoundary, created |-> n, lazy |-> L,
     crashed |-> FALSE, main |-> {}]
  ELSE IF Routes[r].page = "NotFound" THEN
    [route |-> r, boundary |-> NoBoundary, created |-> n, lazy |-> L,
     crashed |-> FALSE, main |-> {NotFoundCard}]
  ELSE
    LET b0 == IF b.exists THEN b ELSE NewBoundary(n + 1)
        pg == PageRender(b0, L, LE, PageProps(r, p), t)
    IN [route |-> r, boundary |-> pg.boundary, created |-> b0.inst, lazy |-> pg.lazy,
        crashed |-> pg.crashed, main |-> pg.main]

\* ------------------------------------------------------------- Navigation

\* Navigation.render: the Account/Logout menu or the Login and Sign Up links.
Navigation(isLoggedIn) == IF isLoggedIn THEN "account" ELSE "guest"

\* Nothing is rendered: before the first render, and after React unmounted
\* the root because an error reached no boundary.
Blank == [nav |-> "none", footer |-> FALSE, main |-> {}]

\* App.render: Navigation, Router and Footer.
AppRender(st, main) == [nav |-> Navigation(st.isLoggedIn), footer |-> TRUE, main |-> main]

\* -------------------------------------------------------------------- App

\* App's constructor: this.state.
InitialState == [debug |-> TRUE, isLoggedIn |-> FALSE, currentUser |-> EmptyRecord]

\* Object.keys(currentUser).length > 0
HasKeys(r) == Cardinality(DOMAIN r) > 0

\* refreshCurrentUser up to its await: `state` is bound to the object that is
\* this.state now, and Api.getCurrentUser() is called.
RefreshCall(cs, ref) == Append(cs, [ref |-> ref, status |-> "awaiting", value |-> EmptyRecord])

\* Variant: isLoggedIn is left as it was.
AssignOnlyUser(obj, v) == [obj EXCEPT !.currentUser = v]
\* refreshCurrentUser after its await: the two assignments to the captured
\* object.
AssignUser(obj, v) == [obj EXCEPT !.currentUser = v, !.isLoggedIn = HasKeys(v)]

\* Variant: setState takes isLoggedIn from the old state.
MergeKeepsLogin(old, result) ==
  [k \in DOMAIN old \cup DOMAIN result |->
     IF k \in DOMAIN result /\ k # "isLoggedIn" THEN result[k] ELSE old[k]]
\* setState(result): a new state object, result's fields over the old ones.
Merge(old, result) ==
  [k \in DOMAIN old \cup DOMAIN result |-> IF k \in DOMAIN result THEN result[k] ELSE old[k]]

\* getCurrentUser() calls that may still be issued: by logout calls in flight
\* or by their continuations already queued.
Owed == logouts + Cardinality({i \in 1..Len(micro) : micro[i].op = "logoutThen"})

\* ------------------------------------------------------------- api server

\* The two messages of the callback handed to mongoose.connect.
DbProblem == "There was a problem connecting to the db."
DbSuccess == "Connection to db successful."

\* -------------------------------------------------------- VisualPanelNavbar

Views == {"Grid", "2D Graph", "3D Graph"}

\* The view prop: one of the views, or a value that names none of them.
ViewProps == Views \cup {"none"}

\* The action prop: 'view', or any other action of the panel.
ActionProps == {"view", "edit"}

PanelProps == [action : ActionProps, view : ViewProps]

\* An element that carries a view attribute.
Element(tag, v) == [tag |-> tag, view |-> v]

\* e.target.getAttribute('view')
getAttribute(el) == el.view

\* One <li> of the navbar: the view it stands for, whether its class is
\* 'nav-item active', and the elements inside its button (the button included)
\* a click can land on.
NavItem(v, p, targets) == [view |-> v, active |-> (p.view = v), targets |-> targets]

\* Variant: the 2D and 3D links are rendered whatever the action prop is.
PanelRenderAllLinks(p) ==
  << NavItem("Grid", p, {Element("button", "Grid"), Element("i", "Grid")}),
     NavItem("2D Graph", p, {Element("button", "2D Graph")}),
     NavItem("3D Graph", p, {Element("button", "3D Graph")}) >>

\* VisualPanelNavbar.render: the items of the navbar-nav list.
PanelRender(p) ==
  << NavItem("Grid", p, {Element("button", "Grid"), Element("i", "Grid")}) >>
  \o (IF p.action = "view"
      THEN << NavItem("2D Graph", p, {Element("button", "2D Graph")}),
              NavItem("3D Graph", p, {Element("button", "3D Graph")}) >>
      ELSE << >>)

\* The elements of the rendered navbar whose click reaches onLinkClick.
LinkTargets(items) == UNION {items[i].targets : i \in 1..Len(items)}

\* ---------------------------------------------------------------- actions

Init ==
  /\ shell = "constructed"
  /\ path \in Paths
  /\ navs = 0
  /\ route = 0
  /\ boundary = NoBoundary
  /\ created = 0
  /\ lazy = [c \in PageComponents |-> "uninit"]
  /\ lazyError = [c \in PageComponents |-> NullValue]
  /\ view = Blank
  /\ heap = <<InitialState>>
  /\ this = 1
  /\ calls = <<>>
  /\ logouts = 0
  /\ micro = <<>>
  /\ lastSet = 0
  /\ log = {}
  /\ unhandled = FALSE
  /\ clicked = 0
  /\ db = "connecting"
  /\ serverLog = {}
  /\ server = "running"
  /\ navbarProps = [action |-> "view", view |-> "Grid"]
  /\ linkClicks = <<>>
  /\ setViewCalls = <<>>
  /\ panelLog = {}

\* A render pass of the mounted tree is committed: rr is the Router's
\* output, st the state App renders Navigation from.  An error that left the
\* RouteBoundary's own render reaches no boundary, and React unmounts the root.
Commit(rr, st) ==
  /\ route' = rr.route
  /\ boundary' = rr.boundary
  /\ created' = rr.created
  /\ lazy' = rr.lazy
  /\ shell' = IF rr.crashed THEN "crashed" ELSE "mounted"
  /\ view' = IF rr.crashed THEN Blank ELSE AppRender(st, rr.main)

\* The page component of the route rendered last.
CurrentComponent == IF route = 0 THEN "NotFound" ELSE Routes[route].page

\* ReactDOM.render(<App />): the first render at the current location, then
\* componentDidMount, which calls refresh().
Mount ==
  /\ shell = "constructed"
  /\ Commit(RouterRender(NoBoundary, 0, lazy, lazyError, path, NoThrow), heap[this])
  /\ calls' = RefreshCall(calls, this)
  /\ UNCHANGED <<path, navs, lazyError, heap, this, logouts, micro, lastSet, clicked, log, unhandled>>
  /\ UNCHANGED <<serverVars, panelVars>>

\* A navigation event to pathname p is dispatched; t is what the page
\* component throws if this pass renders it.
Navigate(p, t) ==
  /\ shell = "mounted"
  /\ micro = <<>>
  /\ navs < MaxNav
  /\ p # path
  /\ path' = p
  /\ navs' = navs + 1
  /\ Commit(RouterRender(boundary, created, lazy, lazyError, p, t), heap[this])
  /\ UNCHANGED <<lazyError, appVars>>
  /\ UNCHANGED <<serverVars, panelVars>>

\* The import() of lazy component c resolves; Suspense renders again.
LazyResolve(c, t) ==
  /\ lazy[c] = "pending"
  /\ micro = <<>>
  /\ LET L == [lazy EXCEPT ![c] = "resolved"]
         tt == IF c = CurrentComponent THEN t ELSE NoThrow
     IN IF shell = "mounted"
        THEN Commit(RouterRender(boundary, created, L, lazyError, path, tt), heap[this])
        ELSE lazy' = L /\ UNCHANGED <<shell, route, boundary, created, view>>
  /\ UNCHANGED <<path, navs, lazyError, appVars>>
  /\ UNCHANGED <<serverVars, panelVars>>

\* The import() of lazy component c rejects with e; Suspense renders again.
LazyReject(c, e) ==
  /\ lazy[c] = "pending"
  /\ micro = <<>>
  /\ lazyError' = [lazyError EXCEPT ![c] = e]
  /\ LET L == [lazy EXCEPT ![c] = "rejected"]
     IN IF shell = "mounted"
        THEN Commit(RouterRender(boundary, created, L, lazyError', path, NoThrow), heap[this])
        ELSE lazy' = L /\ UNCHANGED <<shell, route, boundary, created, view>>
  /\ UNCHANGED <<path, navs, appVars>>
  /\ UNCHANGED <<serverVars, panelVars>>

\* The page component on screen renders again (an update of its own) and
\* throws t.
ContentThrows(t) ==
  /\ shell = "mounted"
  /\ micro = <<>>
  /\ \E el \in view.main : el.kind = "PageContent"
  /\ Commit(RouterRender(boundary, created, lazy, lazyError, path, t), heap[this])
  /\ UNCHANGED <<path, navs, lazyError, appVars>>
  /\ UNCHANGED <<serverVars, panelVars>>

\* The Logout button of Navigation's Account menu is clicked: App.logout.
ClickLogout ==
  /\ shell = "mounted"
  /\ micro = <<>>
  /\ view.nav = "account"
  /\ Len(calls) + Owed < MaxRefresh
  /\ clicked < MaxLogout
  /\ logouts' = logouts + 1
  /\ clicked' = clicked + 1
  /\ UNCHANGED <<shell, routerVars, view, heap, this, calls, micro, lastSet, log, unhandled>>
  /\ UNCHANGED <<serverVars, panelVars>>

\* Api.logoutCurrentUser() resolves: logout's then-callback is queued.
LogoutResolve ==
  /\ logouts > 0
  /\ micro = <<>>
  /\ logouts' = logouts - 1
  /\ micro' = Append(micro, [op |-> "logoutThen", call |-> 0])
  /\ UNCHANGED <<shell, routerVars, view, heap, this, calls, lastSet, clicked, log, unhandled>>
  /\ UNCHANGED <<serverVars, panelVars>>

\* Api.logoutCurrentUser() rejects: logout attached no rejection handler.
LogoutReject ==
  /\ logouts > 0
  /\ micro = <<>>
  /\ logouts' = logouts - 1
  /\ unhandled' = TRUE
  /\ UNCHANGED <<shell, routerVars, view, heap, this, calls, micro, lastSet, clicked, log>>
  /\ UNCHANGED <<serverVars, panelVars>>

\* Api.getCurrentUser() of call i resolves to v: refreshCurrentUser's
\* continuation is queued.
GetResolve(i, v) ==
  /\ calls[i].status = "awaiting"
  /\ micro = <<>>
  /\ calls' = [calls EXCEPT ![i] = [@ EXCEPT !.status = "resolved", !.value = v]]
  /\ micro' = Append(micro, [op |-> "resume", call |-> i])
  /\ UNCHANGED <<shell, routerVars, view, heap, this, logouts, lastSet, clicked, log, unhandled>>
  /\ UNCHANGED <<serverVars, panelVars>>

\* Api.getCurrentUser() of call i rejects: the rejection passes through the
\* catch blocks of refreshCurrentUser and getData to refresh's catch.
GetReject(i) ==
  /\ calls[i].status = "awaiting"
  /\ micro = <<>>
  /\ calls' = [calls EXCEPT ![i] = [@ EXCEPT !.status = "rejected"]]
  /\ micro' = Append(micro, [op |-> "catch", call |-> i])
  /\ UNCHANGED <<shell, routerVars, view, heap, this, logouts, lastSet, clicked, log, unhandled>>
  /\ UNCHANGED <<serverVars, panelVars>>

\* refreshCurrentUser resumes after its await and assigns to the captured
\* state object; the promise of getData then resolves with that object.
Resume(i) ==
  /\ heap' = [heap EXCEPT ![calls[i].ref] = AssignUser(@, calls[i].value)]
  /\ micro' = Append(Tail(micro), [op |-> "then", call |-> i])
  /\ log' = IF heap[this].debug
            THEN log \cup {"App.refreshCurrentUser.state.currentUser",
                           "App.refreshCurrentUser.state.isLoggedIn"}
            ELSE log
  /\ UNCHANGED <<shell, routerVars, view, this, calls, logouts, lastSet, clicked, unhandled>>
  /\ UNCHANGED <<serverVars, panelVars>>

\* refresh's then-callback: this.setState(result) and the render it causes.
\* React ignores setState on an unmounted component.
SetState(i) ==
  /\ micro' = Tail(micro)
  /\ lastSet' = i
  /\ IF shell = "mounted"
     THEN /\ heap' = Append(heap, Merge(heap[this], heap[calls[i].ref]))
          /\ this' = Len(heap) + 1
          /\ Commit(RouterRender(boundary, created, lazy, lazyError, path, NoThrow),
                    heap'[this'])
     ELSE UNCHANGED <<heap, this, shell, route, boundary, created, lazy, view>>
  /\ UNCHANGED <<path, navs, lazyError, calls, logouts, clicked, log, unhandled>>
  /\ UNCHANGED <<serverVars, panelVars>>

\* Variant: the catch-callback also puts this.state back to the logged-out one.
CatchResets(i) ==
  /\ micro' = Tail(micro)
  /\ log' = log \cup {"App.js.componentDidMount"}
  /\ heap' = [heap EXCEPT ![this] = InitialState]
  /\ UNCHANGED <<shell, routerVars, view, this, calls, logouts, lastSet, clicked, unhandled>>
  /\ UNCHANGED <<serverVars, panelVars>>
\* refresh's catch-callback: console.error.
Catch(i) ==
  /\ micro' = Tail(micro)
  /\ log' = log \cup {"App.js.componentDidMount"}
  /\ UNCHANGED <<shell, routerVars, view, heap, this, calls, logouts, lastSet, clicked, unhandled>>
  /\ UNCHANGED <<serverVars, panelVars>>

\* logout's then-callback: this.refresh().
LogoutThen ==
  /\ micro' = Tail(micro)
  /\ calls' = RefreshCall(calls, this)
  /\ UNCHANGED <<shell, routerVars, view, heap, this, logouts, lastSet, clicked, log, unhandled>>
  /\ UNCHANGED <<serverVars, panelVars>>

\* The event loop runs the microtask at the head of the queue.
RunMicrotask ==
  /\ micro # <<>>
  /\ LET m == Head(micro) IN
     \/ m.op = "resume" /\ Resume(m.call)
     \/ m.op = "then" /\ SetState(m.call)
     \/ m.op = "catch" /\ Catch(m.call)
     \/ m.op = "logoutThen" /\ LogoutThen

\* Variant: the callback ends the process when the connection failed.
ConnectCallbackExits(error) ==
  /\ server = "running"
  /\ db = "connecting"
  /\ db' = IF error THEN "failed" ELSE "connected"
  /\ serverLog' = serverLog \cup {IF error THEN DbProblem ELSE DbSuccess}
  /\ server' = IF error THEN "exited" ELSE server
  /\ UNCHANGED <<shell, routerVars, view, appVars, panelVars>>
\* The callback of mongoose.connect runs, with or without an error.
ConnectCallback(error) ==
  /\ server = "running"
  /\ db = "connecting"
  /\ db' = IF error THEN "failed" ELSE "connected"
  /\ serverLog' = serverLog \cup {IF error THEN DbProblem ELSE DbSuccess}
  /\ UNCHANGED server
  /\ UNCHANGED <<shell, routerVars, view, appVars, panelVars>>

\* VisualPanelNavbar.onLinkClick: a click on element target of the navbar.
onLinkClick(target) ==
  /\ Len(linkClicks) < MaxClick
  /\ target \in LinkTargets(PanelRender(navbarProps))
  /\ linkClicks' = Append(linkClicks, [target |-> target, action |-> navbarProps.action])
  /\ panelLog' = panelLog \cup {<<"clicked", getAttribute(target)>>}
  /\ setViewCalls' = Append(setViewCalls, getAttribute(target))
  /\ UNCHANGED navbarProps
  /\ UNCHANGED <<shell, routerVars, view, appVars, serverVars>>

\* The parent renders VisualPanelNavbar again with props p.
PanelReceiveProps(p) ==
  /\ p # navbarProps
  /\ navbarProps' = p
  /\ UNCHANGED <<linkClicks, setViewCalls, panelLog>>
  /\ UNCHANGED <<shell, routerVars, view, appVars, serverVars>>

Next ==
  \/ Mount
  \/ \E p \in Paths, t \in Thrown \cup {NoThrow} : Navigate(p, t)
  \/ \E c \in PageComponents, t \in Thrown \cup {NoThrow} : LazyResolve(c, t)
  \/ \E c \in PageComponents, e \in LoadErrors : LazyReject(c, e)
  \/ \E t \in Thrown : ContentThrows(t)
  \/ ClickLogout
  \/ LogoutResolve
  \/ LogoutReject
  \/ \E i \in 1..Len(calls), v \in UserRecords : GetResolve(i, v)
  \/ \E i \in 1..Len(calls) : GetReject(i)
  \/ RunMicrotask
  \/ \E error \in BOOLEAN : ConnectCallback(error)
  \/ \E target \in LinkTargets(PanelRender(navbarProps)) : onLinkClick(target)
  \/ \E p \in PanelProps : PanelReceiveProps(p)

Spec == Init /\ [][Next]_vars

\* The view layer alone: the Api calls of the shell stay outstanding.
NextRouter ==
  \/ Mount
  \/ \E p \in Paths, t \in Thrown \cup {NoThrow} : Navigate(p, t)
  \/ \E c \in PageComponents, t \in Thrown \cup {NoThrow} : LazyResolve(c, t)
  \/ \E c \in PageComponents, e \in LoadErrors : LazyReject(c, e)
  \/ \E t \in Thrown : ContentThrows(t)

SpecRouter == Init /\ [][NextRouter]_vars

\* The shell alone: the location stays where the application was loaded.
NextApp ==
  \/ Mount
  \/ ClickLogout
  \/ LogoutResolve
  \/ LogoutReject
  \/ \E i \in 1..Len(calls), v \in UserRecords : GetResolve(i, v)
  \/ \E i \in 1..Len(calls) : GetReject(i)
  \/ RunMicrotask

SpecApp == Init /\ [][NextApp]_vars

\* The shell together with the api server it calls.
NextServer ==
  \/ \E error \in BOOLEAN : ConnectCallback(error)
  \/ Mount
  \/ ClickLogout
  \/ LogoutResolve
  \/ LogoutReject
  \/ \E i \in 1..Len(calls), v \in UserRecords : GetResolve(i, v)
  \/ \E i \in 1..Len(calls) : GetReject(i)
  \/ RunMicrotask

SpecServer == Init /\ [][NextServer]_vars

\* The navbar of the visual panel alone.
NextPanel ==
  \/ \E target \in LinkTargets(PanelRender(navbarProps)) : onLinkClick(target)
  \/ \E p \in PanelProps : PanelReceiveProps(p)

SpecPanel == Init /\ [][NextPanel]_vars

\* ----------------------------------------------------------------- claims

\* A Page is mounted: its RouteBoundary instance is alive.
Live == shell = "mounted" /\ boundary.exists

\* C1: while a Page is mounted, the Router's area holds exactly one element,
\* and it is the loading card, the error card or the page content.
C1_OneRenderState ==
  Live => \E el \in view.main :
            /\ view.main = {el}
            /\ el = LoadingCard \/ el.kind = "ErrorCard" \/ el.kind = "PageContent"

\* C1 witness: a boundary holding an error around a component that resolved.
C1_Witness ==
  /\ Live
  /\ boundary.hasError
  /\ lazy[CurrentComponent] = "resolved"
  /\ view.main = {ErrorCard("Error: X failed")}

\* C2: the route rendered is the first entry, in registration order, that
\* matches the location, and only that entry's page is on screen.
C2_FirstMatchWins ==
  shell = "mounted" =>
    /\ route \in 1..Len(Routes)
    /\ MatchPath(Routes[route], path)
    /\ \A j \in 1..(route - 1) : ~MatchPath(Routes[j], path)
    /\ boundary.exists <=> Routes[route].page \in PageComponents
    /\ NotFoundCard \in view.main <=> Routes[route].page = "NotFound"
    /\ \A el \in view.main : el.kind = "PageContent" => el.title = Routes[route].page

\* C2 witness: after a navigation to /about, which the first and the last
\* entry both match, the first entry's page is rendered.
C2_Witness ==
  /\ shell = "mounted"
  /\ navs > 0
  /\ path = "/about"
  /\ route = 1
  /\ MatchPath(Routes[6], path)
  /\ view.main = {PageContent("About", [location |-> "/about", PageComponent |-> "About"])}

\* C3: at a location no route pattern matches, the "404 - Not Found" card is
\* what the Router shows, and nothing else.
C3_NotFoundCard ==
  (shell = "mounted" /\ \A i \in 1..Len(Routes) : Routes[i].hasPath => ~MatchPath(Routes[i], path))
    => /\ view.main = {NotFoundCard}
       /\ \A el \in view.main : el.title = "404 - Not Found"

\* C3 witness: /missing was navigated to from a page whose boundary had
\* been created, and the card is shown.
C3_Witness ==
  /\ shell = "mounted"
  /\ navs > 0
  /\ created > 0
  /\ path = "/missing"
  /\ view.main = {NotFoundCard}

\* C4: once mounted, the shell stays mounted with Navigation and Footer
\* rendered, whatever a page throws.
C4_ShellStaysRendered ==
  [][shell = "mounted" => (shell' = "mounted" /\ view'.nav # "none" /\ view'.footer)]_vars

\* C5: a RouteBoundary that holds an error shows the error card with the
\* error's text and nothing else, and keeps that error for as long as the
\* instance lives.
C5_ErrorIsKept ==
  /\ [](Live /\ boundary.hasError =>
          view.main = {ErrorCard(IF boundary.error.type = "Error"
                                 THEN "Error: " \o boundary.error.msg
                                 ELSE boundary.error.msg)})
  /\ [][(Live /\ boundary.hasError /\ Live' /\ boundary'.inst = boundary.inst)
          => (boundary'.hasError /\ boundary'.error = boundary.error /\ view'.main = view.main)]_vars

\* C5 witness: the boundary captured "X failed" and shows it.
C5_Witness ==
  /\ Live
  /\ boundary.hasError
  /\ boundary.error = XFailed
  /\ view.main = {ErrorCard("Error: X failed")}

\* C6: while the page component of the mounted Page is unresolved the
\* loading card is shown, and once it is resolved and holds no failure the
\* component is shown with the props of Page.
C6_FallbackThenContent ==
  /\ (Live /\ lazy[CurrentComponent] = "pending") => view.main = {LoadingCard}
  /\ (Live /\ lazy[CurrentComponent] = "resolved" /\ ~boundary.hasError)
       => view.main = {PageContent(CurrentComponent, PageProps(route, path))}

\* C7: a navigation from a page whose boundary holds an error to another
\* routed page leaves no error behind; the page arrived at is one whose
\* import is still outstanding, so it has no failure of its own to show.
C7_ErrorResetOnNavigation ==
  [][(/\ Live /\ boundary.hasError
      /\ Live' /\ route' # route
      /\ lazy'[Routes[route'].page] = "pending")
     => (/\ ~boundary'.hasError
         /\ boundary'.error = NullValue
         /\ view'.main = {LoadingCard})]_vars

\* C8: a rejected import of the mounted Page's component is not absorbed by
\* Suspense: the boundary holds an error and shows its card, and a boundary
\* that held none receives the rejection reason itself.
C8_LoadFailureReachesBoundary ==
  /\ [](Live /\ lazy[CurrentComponent] = "rejected" =>
          /\ boundary.hasError
          /\ view.main = {ErrorCard(toString(boundary.error))})
  /\ [][(/\ Live /\ ~boundary.hasError
         /\ lazy[CurrentComponent] = "pending"
         /\ lazy'[CurrentComponent] = "rejected")
        => (/\ Live'
            /\ boundary'.hasError
            /\ boundary'.error = lazyError'[CurrentComponent]
            /\ view'.main = {ErrorCard(toString(lazyError'[CurrentComponent]))})]_vars

\* C8 witness: the component's import failed and the boundary shows that
\* failure.
C8_Witness ==
  /\ Live
  /\ lazy[CurrentComponent] = "rejected"
  /\ boundary.error = ChunkLoadError
  /\ view.main = {ErrorCard("Error: Loading chunk failed")}

\* C9: page content on screen is always the component of the route of the
\* current location, rendered for that location, and the resolution of any
\* other component's import changes nothing on screen.
C9_StaleResolutionDiscarded ==
  /\ [](shell = "mounted" =>
          \A el \in view.main : el.kind = "PageContent" =>
            /\ el.title = Routes[Switch(path)].page
            /\ el.props.location = path)
  /\ [][(shell = "mounted" /\
         \E c \in PageComponents :
           c # CurrentComponent /\ lazy[c] = "pending" /\ lazy'[c] = "resolved")
        => view' = view]_vars

\* C9 witness: the component of an earlier navigation has resolved while the
\* import of the current page is outstanding, and the loading card is shown.
C9_Witness ==
  /\ Live
  /\ navs > 0
  /\ lazy[CurrentComponent] = "pending"
  /\ \E c \in PageComponents : c # CurrentComponent /\ lazy[c] = "resolved"
  /\ view.main = {LoadingCard}

\* C10: after a refresh has set the state, Navigation shows the Login and
\* Sign Up links if that refresh resolved to the empty record, and the
\* Account menu if it resolved to a record with keys.
C10_NavigationFollowsRefresh ==
  (shell = "mounted" /\ lastSet # 0) =>
    view.nav = IF calls[lastSet].value = EmptyRecord THEN "guest" ELSE "account"

\* C10 witness: a refresh resolved to a user record and a later one to the
\* empty record; the links are shown.
C10_Witness ==
  /\ shell = "mounted"
  /\ micro = <<>>
  /\ lastSet = 2
  /\ calls[1].value = UserRecord
  /\ calls[1].status = "resolved"
  /\ calls[2].value = EmptyRecord
  /\ view.nav = "guest"

\* What App's own code writes to the console: the debug lines of
\* refreshCurrentUser and the label of refresh's catch.
AppLog == {"App.refreshCurrentUser.state.currentUser",
           "App.refreshCurrentUser.state.isLoggedIn",
           "App.js.componentDidMount"}

\* The logoutThen continuations in the microtask queue.
QueuedLogoutThen == Cardinality({i \in 1..Len(micro) : micro[i].op = "logoutThen"})

\* C11: componentDidMount is followed by a getCurrentUser() call, and every
\* logout() call by one more, issued only after its logoutCurrentUser() has
\* completed: no call is issued early, and once no logoutCurrentUser() is
\* outstanding and no continuation of one is queued, there has been one
\* getCurrentUser() call for the mount and one for each logout().
C11_RefreshAfterMountAndLogout ==
  shell # "constructed" =>
    /\ Len(calls) >= 1
    /\ Len(calls) + Owed <= 1 + clicked
    /\ (logouts = 0 /\ QueuedLogoutThen = 0) => Len(calls) = 1 + clicked

\* The catch-callback of call i has run.
CatchRan(i) ==
  /\ calls[i].status = "rejected"
  /\ \A k \in 1..Len(micro) : ~(micro[k].op = "catch" /\ micro[k].call = i)

\* C12: no rejection of an Api call is left unhandled, and a rejected
\* getCurrentUser() whose handler has run has been logged.
C12_EveryFailureCaught ==
  /\ ~unhandled
  /\ \A i \in 1..Len(calls) : CatchRan(i) => "App.js.componentDidMount" \in log

IsMiss(p) == Switch(p) # 0 /\ Routes[Switch(p)].page = "NotFound"

\* C14: a render at an unmatched path constructs no RouteBoundary, leaves none
\* mounted (so none is in its error state and nothing was captured) and shows
\* the 404 card with the shell intact; a navigation from there to a registered
\* path mounts a new Page whose boundary is fresh, and which shows the loading
\* card or the page's content unless that page itself fails.
C14_MissIsNotAnError ==
  [][ /\ (((shell = "constructed" /\ shell' # "constructed") \/ navs' = navs + 1)
          /\ IsMiss(path'))
        => /\ shell' = "mounted"
           /\ boundary' = NoBoundary
           /\ created' = created
           /\ view'.main = {NotFoundCard}
           /\ view'.footer
      /\ (shell = "mounted" /\ IsMiss(path) /\ navs' = navs + 1 /\ ~IsMiss(path'))
        => /\ boundary'.exists
           /\ boundary'.inst = created + 1
           /\ created' = created + 1
           /\ LET c == Routes[route'].page IN
              /\ route' = Switch(path')
              /\ lazy[c] \in {"uninit", "pending"}
                   => /\ ~boundary'.hasError
                      /\ shell' = "mounted"
                      /\ view'.main = {LoadingCard}
              /\ (~boundary'.hasError /\ lazy[c] = "resolved")
                   => /\ shell' = "mounted"
                      /\ view'.main = {PageContent(c, PageProps(route', path'))}
    ]_vars

\* C14 witness: after a miss, a navigation to a registered path mounted a
\* second Page, whose content is shown.
C14_Witness ==
  /\ Live
  /\ created = 2
  /\ ~boundary.hasError
  /\ lazy[CurrentComponent] = "resolved"
  /\ view.main = {PageContent(CurrentComponent, PageProps(route, path))}

\* C15: the callback of the db connection has exactly two outcomes, each
\* logged with its own message and nothing else, and after either of them the
\* server process is running.
C15_DbFailureLoggedServerRuns ==
  /\ server = "running"
  /\ db \in {"connecting", "failed", "connected"}
  /\ db = "connecting" => serverLog = {}
  /\ db = "failed" => serverLog = {DbProblem}
  /\ db = "connected" => serverLog = {DbSuccess}

\* C15 witness: the connection has failed while the shell is in use.
C15_Witness ==
  /\ db = "failed"
  /\ DbProblem \in serverLog
  /\ server = "running"
  /\ shell = "mounted"

\* C16: in every state object of App, this.state included, isLoggedIn is true
\* exactly when currentUser has at least one key.
C16_LoggedInIffUserHasKeys ==
  \A k \in 1..Len(heap) : heap[k].isLoggedIn = HasKeys(heap[k].currentUser)

\* C16 witness: refreshCurrentUser has assigned a user record to this.state in
\* place, and setState and the render it causes have not run yet.
C16_Witness ==
  /\ micro # <<>>
  /\ Head(micro).op = "then"
  /\ heap[this].currentUser = UserRecord
  /\ heap[this].isLoggedIn
  /\ view.nav = "guest"

\* C17: once every getCurrentUser() call issued has resolved and every
\* continuation has run, App's state holds the result of the call issued last.
C17_LatestIssuedWins ==
  (/\ shell = "mounted"
   /\ micro = <<>>
   /\ logouts = 0
   /\ calls # <<>>
   /\ \A i \in 1..Len(calls) : calls[i].status = "resolved")
  => /\ heap[this].currentUser = calls[Len(calls)].value
     /\ heap[this].isLoggedIn = HasKeys(calls[Len(calls)].value)

\* C18: the rejection of a getCurrentUser() call and the catch-callback it
\* leads to change no state object of App, do not replace this.state and cause
\* no render; only resolved calls are resumed and handed to setState.
C18_RejectionChangesNothing ==
  /\ [](/\ lastSet # 0 => calls[lastSet].status = "resolved"
        /\ \A k \in 1..Len(micro) :
             micro[k].op \in {"resume", "then"} => calls[micro[k].call].status = "resolved")
  /\ [][ (\/ \E i \in 1..Len(calls) :
              calls[i].status = "awaiting" /\ calls'[i].status = "rejected"
          \/ micro # <<>> /\ Head(micro).op = "catch")
         => /\ heap' = heap
            /\ this' = this
            /\ lastSet' = lastSet
            /\ view' = view ]_vars

\* C18 witness: a getCurrentUser() call was rejected and logged while a user
\* is logged in, and the user still is.
C18_Witness ==
  /\ micro = <<>>
  /\ \E i \in 1..Len(calls) : calls[i].status = "rejected"
  /\ "App.js.componentDidMount" \in log
  /\ heap[this].currentUser = UserRecord
  /\ heap[this].isLoggedIn
  /\ view.nav = "account"

\* C19: a RouteBoundary has hasError set exactly when its error is not null,
\* and its render does not throw.
C19_ErrorStateConsistent ==
  boundary.exists =>
    /\ boundary.hasError <=> boundary.error # NullValue
    /\ ~BoundaryRenderThrows(boundary)

\* C20: props.setView is called once for each click on a link, with the view
\* attribute of the element clicked, a value among 'Grid', '2D Graph' and
\* '3D Graph', and 'Grid' when the action prop was not 'view'; at most one
\* item of the navbar is active, and an item is active exactly when its view
\* is the view prop.
C20_SetViewPerClick ==
  /\ Len(setViewCalls) = Len(linkClicks)
  /\ \A i \in 1..Len(linkClicks) :
       /\ setViewCalls[i] = linkClicks[i].target.view
       /\ setViewCalls[i] \in Views
       /\ linkClicks[i].action # "view" => setViewCalls[i] = "Grid"
       /\ <<"clicked", setViewCalls[i]>> \in panelLog
  /\ LET items == PanelRender(navbarProps) IN
       /\ Cardinality({i \in 1..Len(items) : items[i].active}) <= 1
       /\ \A i \in 1..Len(items) : items[i].active <=> items[i].view = navbarProps.view
       /\ navbarProps.action # "view" => Len(items) = 1

\* C20 witness: the 3D link was clicked, and then, with another action, the
\* icon inside the Grid link.
C20_Witness ==
  /\ Len(setViewCalls) = 2
  /\ setViewCalls[1] = "3D Graph"
  /\ linkClicks[2].action # "view"
  /\ linkClicks[2].target = Element("i", "Grid")
  /\ setViewCalls[2] = "Grid"
  /\ navbarProps.view = "Grid"

====
